---------------------------- MODULE Spec2Model ----------------------------
(***************************************************************************)
(* Transfer / gameweek-state engine of the FST fantasy-football backend.   *)
(*                                                                         *)
(* The main specification, Spec, models the richest revision of the        *)
(* server (src/unnamed/part_005: budget 75, wildcard, triple captain,      *)
(* wild bench, -4 penalty).  One action is one HTTP handler, run from its  *)
(* first line to its response.  SpecGW adds the gameweek clock, SpecSave   *)
(* submits more kinds of roster to save-team, SpecConc lets the requests   *)
(* of one user interleave between their store calls.                       *)
(* Spec01 models the earlier revision src/unnamed/part_001, which has the  *)
(* position rule of make-transfer and the route that starts a gameweek;    *)
(* SpecServer, Spec04, Spec02 and Spec06 model src/server.js and the       *)
(* revisions part_004, part_002 and part_006; SpecBoard runs the read side *)
(* of part_005 (leaderboard, prize pool) over a collection of users.       *)
(* The provider reports a cost in tenths of a unit (now_cost); the server  *)
(* divides it by 10 and from there on computes with JavaScript numbers,    *)
(* which the model keeps as exact IEEE-754 doubles.  The constants 75.0    *)
(* and 5.0 are written in tenths, 750 and 50.  A schema value of null is   *)
(* written 0: player ids and gameweek numbers start at 1.                  *)
(***************************************************************************)
EXTENDS Integers, Sequences, FiniteSets, TLC

VARIABLES user, resp, nTransfers, slots

vars == <<user, resp, nTransfers, slots>>

-----------------------------------------------------------------------------
(* Bounds of the model *)

MaxTransfers == 2
MaxGameweek == 2
MaxUsers == 12
MaxWrites == 1
MaxEntrants == 3
MaxSaves == 3

-----------------------------------------------------------------------------
(* Program constants *)

Null == 0
TeamSize == 11
ClubLimit == 2
BudgetCeiling == 750
FallbackCost == 50
PenaltyPoints == 4
TripleFactor == 3

-----------------------------------------------------------------------------
(* JavaScript numbers.  Costs and budgets are IEEE-754 doubles, and every  *)
(* one the handlers compute lies within a rounding error of a multiple of  *)
(* 0.1.  Double(t, e) is the double whose exact value is                   *)
(*     t / 10  +  e / (5 * 2^52):                                          *)
(* t counts tenths and e is the distance from that tenth, in fifths of     *)
(* 2^-52.  The operators below round as the hardware does (to nearest,     *)
(* ties to even) for magnitudes from 2^-52 up to 256.                      *)

Double(t, e) == [t |-> t, e |-> e]

\* the double that is exactly t tenths (t / 10 is a binary fraction)
Exact(t) == Double(t, 0)

DNegate(d) == Double(-d.t, -d.e)

\* d < 0
DNegative(d) == d.t < 0 \/ (d.t = 0 /\ d.e < 0)

\* a > b
DGreater(a, b) == a.t > b.t \/ (a.t = b.t /\ a.e > b.e)

\* 2^k mod 5
Pow2Mod5(k) == <<1, 2, 4, 3>>[(k % 4) + 1]

\* binary exponent k of a value d >= 2, so that 2^k <= d < 2^(k+1); 0 for a
\* value below 2, where every multiple of 2^-52 is a double
Exp2(d) ==
  LET m == IF d.t < 20 THEN 0 ELSE IF d.t < 40 THEN 1
           ELSE IF d.t < 80 THEN 2 ELSE IF d.t < 160 THEN 3
           ELSE IF d.t < 320 THEN 4 ELSE IF d.t < 640 THEN 5
           ELSE IF d.t < 1280 THEN 6 ELSE 7
  IN IF m > 0 /\ d.t = 10 * 2^m /\ d.e < 0 THEN m - 1 ELSE m

\* x >= 0 a multiple of 2^-52, rounded to the nearest double.  In units of
\* 2^-52 the doubles around x are the multiples of U = 2^k, and r is what x
\* has above the multiple below it.
DRoundPos(x) ==
  LET k == Exp2(x)
      U == 2^k
      r == ((U * ((x.t * Pow2Mod5(51 - k)) % 5) + x.e) % (5 * U)) \div 5
      r2 == ((2 * U * ((x.t * Pow2Mod5(50 - k)) % 5) + x.e) % (10 * U)) \div 5
      up == 2 * r > U \/ (2 * r = U /\ r2 # r)
  IN IF r = 0 THEN x
     ELSE IF up THEN Double(x.t, x.e + 5 * (U - r))
     ELSE Double(x.t, x.e - 5 * r)

DRound(x) == IF DNegative(x) THEN DNegate(DRoundPos(DNegate(x))) ELSE DRoundPos(x)

\* a + b and a - b
DAdd(a, b) == DRound(Double(a.t + b.t, a.e + b.e))

DSub(a, b) == DRound(Double(a.t - b.t, a.e - b.e))

\* n / 10 for an integer n: the double nearest to n tenths
DivTen(n) ==
  LET k == Exp2(Exact(n))
      U == 2^k
      A == (n * Pow2Mod5(51 - k)) % 5
  IN IF A <= 2 THEN Double(n, -(U * A)) ELSE Double(n, U * (5 - A))

\* Number.prototype.toFixed(1), in tenths
ToFixed1(d) == d.t

-----------------------------------------------------------------------------
(* The Player Data Provider: what element-summary answers for a player id. *)
(* Thirteen players in six clubs; players p and p+6 share a club.          *)

Club(p) == ((p - 1) % 6) + 1

Cost(p) == IF p = 12 THEN 90 ELSE 55 + 2 * p

\* total_points of the latest gameweek, under provider snapshot s
Pts(s, p) == ((p * s) % 5) - 1

Snapshots == {1, 2}

PlayerIds == 1..13

\* now_cost / 10 as the handlers read it
NowCost == [p \in PlayerIds |-> DivTen(Cost(p))]

-----------------------------------------------------------------------------
(* Sequence helpers *)

Range(s) == {s[i] : i \in 1..Len(s)}

\* a search that answers the first slot for a value the array does not hold
IndexOfOrFirst(s, x) ==
  IF \E i \in 1..Len(s) : s[i] = x
    THEN CHOOSE i \in 1..Len(s) : s[i] = x /\ \A j \in 1..(i - 1) : s[j] # x
    ELSE 1

\* Array.prototype.indexOf, 1-based; 0 when absent
IndexOf(s, x) ==
  IF \E i \in 1..Len(s) : s[i] = x
    THEN CHOOSE i \in 1..Len(s) : s[i] = x /\ \A j \in 1..(i - 1) : s[j] # x
    ELSE 0

Max(a, b) == IF a >= b THEN a ELSE b

-----------------------------------------------------------------------------
(* The user document *)

NoUser ==
  [exists |-> FALSE, joined |-> FALSE, locked |-> FALSE, team |-> <<>>,
   entries |-> 0, points |-> 0, totalPoints |-> 0,
   budget |-> Exact(BudgetCeiling), freeTransfers |-> 1,
   currentGameweek |-> 1, lastTransferGameweek |-> 1,
   wildcardUsed |-> FALSE, wildcardGameweek |-> Null,
   tripleCaptainUsed |-> FALSE, tripleCaptainGameweek |-> Null,
   captainId |-> Null,
   wildBenchUsed |-> FALSE, wildBenchGameweek |-> Null,
   wildBenchPlayer |-> Null]

\* The response of the last request, with the request's inputs and the
\* handler's local values that the response or the log reports.
NoResp ==
  [op |-> "none", ok |-> FALSE, err |-> "none",
   oldPlayerId |-> 0, newPlayerId |-> 0,
   oldPlayerCost |-> Exact(0), newPlayerCost |-> Exact(0),
   penaltyPoints |-> 0, isWildcardActive |-> FALSE, rolled |-> FALSE,
   totalCost |-> Exact(0), remaining |-> 0,
   captainId |-> 0, wildBenchPlayerId |-> 0,
   snapshot |-> 0, statFailed |-> {}, points |-> 0, playerStats |-> <<>>,
   isWildBenchActive |-> FALSE, isTripleCaptainActive |-> FALSE]

Reply(u, r) == [user |-> u, res |-> r]

Fail(u, r, e) == Reply(u, [r EXCEPT !.ok = FALSE, !.err = e])

-----------------------------------------------------------------------------
(* POST /connect-wallet *)

\* an update that also puts the document back to "no team submitted"
ConnectUpdateUnlocks(u) ==
  [u EXCEPT !.exists = TRUE, !.joined = TRUE, !.locked = FALSE,
            !.currentGameweek = 1, !.budget = Exact(BudgetCeiling),
            !.freeTransfers = 1, !.lastTransferGameweek = 1,
            !.wildcardUsed = FALSE, !.wildcardGameweek = Null,
            !.tripleCaptainUsed = FALSE, !.tripleCaptainGameweek = Null,
            !.captainId = Null,
            !.wildBenchUsed = FALSE, !.wildBenchGameweek = Null,
            !.wildBenchPlayer = Null]

\* an update that leaves lastTransferGameweek without a gameweek
ConnectUpdateUnrecorded(u) ==
  [u EXCEPT !.exists = TRUE, !.joined = TRUE,
            !.currentGameweek = 1, !.budget = Exact(BudgetCeiling),
            !.freeTransfers = 1, !.lastTransferGameweek = Null,
            !.wildcardUsed = FALSE, !.wildcardGameweek = Null,
            !.tripleCaptainUsed = FALSE, !.tripleCaptainGameweek = Null,
            !.captainId = Null,
            !.wildBenchUsed = FALSE, !.wildBenchGameweek = Null,
            !.wildBenchPlayer = Null]

ConnectUpdate(u) ==
  [u EXCEPT !.exists = TRUE, !.joined = TRUE,
            !.currentGameweek = 1, !.budget = Exact(BudgetCeiling),
            !.freeTransfers = 1, !.lastTransferGameweek = 1,
            !.wildcardUsed = FALSE, !.wildcardGameweek = Null,
            !.tripleCaptainUsed = FALSE, !.tripleCaptainGameweek = Null,
            !.captainId = Null,
            !.wildBenchUsed = FALSE, !.wildBenchGameweek = Null,
            !.wildBenchPlayer = Null]

ConnectWallet(u) ==
  LET r == [NoResp EXCEPT !.op = "connect-wallet"] IN
  IF u.exists /\ u.locked
    THEN Fail(u, r, "AlreadyLocked")
    ELSE Reply(ConnectUpdate(u), [r EXCEPT !.ok = TRUE])

-----------------------------------------------------------------------------
(* Cost and club lookups *)

\* parseFloat(now_cost / 10) || 5.0, and 5.0 when the request throws
LookupCost(p, failed) ==
  IF failed \/ Cost(p) = 0 THEN Exact(FallbackCost) ELSE NowCost[p]

\* number of players of club c among the first n entries of team whose
\* lookup did not fail
ClubCount(team, n, c, failed) ==
  Cardinality({i \in 1..n : team[i] \notin failed /\ Club(team[i]) = c})

\* the per-club loop: TRUE when no counted club exceeds the limit
ClubCapOk(team, failed) ==
  \A i \in 1..Len(team) :
    team[i] \notin failed => ClubCount(team, i, Club(team[i]), failed) <= ClubLimit

\* totalCost after the loop has added the first n players, in list order
RECURSIVE SumCost(_, _, _)
SumCost(team, n, failed) ==
  IF n = 0 THEN Exact(0)
  ELSE DAdd(SumCost(team, n - 1, failed),
            LookupCost(team[n], team[n] \in failed))

-----------------------------------------------------------------------------
(* POST /save-team *)

\* new Set(team).size.  The body is JSON: an id arrives as a number or as a
\* string, and a Set keeps the number 7 and the string "7" apart.  team
\* lists the ids, strings the positions whose id arrived as a string.
UniquePlayers(team, strings) ==
  Cardinality({<<i \in strings, team[i]>> : i \in 1..Len(team)})

\* The lookups put the id into the request URL and the schema casts
\* team: [Number] on assignment, so from the duplicate check on a string
\* id is the id.
SaveTeam(u, team, strings, failed) ==
  LET r == [NoResp EXCEPT !.op = "save-team"]
      totalCost == SumCost(team, Len(team), failed)
  IN
  IF Len(team) # TeamSize THEN Fail(u, r, "SizeError")
  ELSE IF UniquePlayers(team, strings) # Len(team)
    THEN Fail(u, r, "DuplicateError")
  ELSE IF ~ClubCapOk(team, failed) THEN Fail(u, r, "ClubCapError")
  ELSE IF DGreater(totalCost, Exact(BudgetCeiling))
    THEN Fail(u, [r EXCEPT !.totalCost = totalCost,
                           !.remaining =
                              ToFixed1(DSub(Exact(BudgetCeiling), totalCost))],
              "BudgetError")
  ELSE IF ~u.exists THEN Fail(u, r, "NotJoined")
  ELSE IF u.locked THEN Fail(u, r, "AlreadyLocked")
  ELSE Reply([u EXCEPT !.team = team, !.locked = TRUE,
                       !.entries = @ + 1, !.points = 0,
                       !.budget = DSub(Exact(BudgetCeiling), totalCost)],
             [r EXCEPT !.ok = TRUE, !.totalCost = totalCost])

-----------------------------------------------------------------------------
(* POST /transfer-player *)

\* a rollover that gives the free transfer back without recording the
\* gameweek it did so for
RolloverUnrecorded(u) ==
  IF u.currentGameweek # u.lastTransferGameweek
    THEN [u EXCEPT !.freeTransfers = 1]
    ELSE u

\* a rollover that never resets
RolloverNever(u) == u

\* the gameweek rollover inside transfer-player
Rollover(u) ==
  IF u.currentGameweek # u.lastTransferGameweek
    THEN [u EXCEPT !.freeTransfers = 1,
                   !.lastTransferGameweek = u.currentGameweek]
    ELSE u

IsWildcardActive(u) ==
  u.wildcardUsed /\ u.wildcardGameweek = u.currentGameweek

\* the check made on the tenths alone
CannotAffordTenths(newBudget) == newBudget.t < 0

\* newBudget < 0
CannotAfford(newBudget) == DNegative(newBudget)

\* the budget change applied with the wrong sign
NewBudgetSwapped(budget, oldPlayerCost, newPlayerCost) ==
  DSub(budget, DSub(oldPlayerCost, newPlayerCost))

\* budgetChange = newPlayerCost - oldPlayerCost; budget - budgetChange
NewBudget(budget, oldPlayerCost, newPlayerCost) ==
  DSub(budget, DSub(newPlayerCost, oldPlayerCost))

\* the comparison off by one: a user with 0 free transfers pays nothing
PenaltyForOffByOne(u, isWildcardActive) ==
  IF ~isWildcardActive /\ u.freeTransfers < 0 THEN PenaltyPoints ELSE 0

\* the -4 penalty for a transfer beyond the free one
PenaltyFor(u, isWildcardActive) ==
  IF ~isWildcardActive /\ u.freeTransfers < 1 THEN PenaltyPoints ELSE 0

\* the decrement applied even when no free transfer is left
NextFreeTransfersUnfloored(freeTransfers, isWildcardActive) ==
  IF isWildcardActive THEN 1 ELSE freeTransfers - 1

\* the decrement applied whether or not the wildcard is active
NextFreeTransfersAlways(freeTransfers, isWildcardActive) ==
  IF freeTransfers > 0 THEN freeTransfers - 1 ELSE freeTransfers

\* freeTransfers after a transfer that went through
NextFreeTransfers(freeTransfers, isWildcardActive) ==
  IF isWildcardActive THEN 1
  ELSE IF freeTransfers > 0 THEN freeTransfers - 1
  ELSE freeTransfers

TransferPlayer(u, oldPlayerId, newPlayerId, failOld, failNew, clubFailed) ==
  LET r == [NoResp EXCEPT !.op = "transfer-player",
                          !.oldPlayerId = oldPlayerId,
                          !.newPlayerId = newPlayerId]
      oldPlayerIndex == IndexOf(u.team, oldPlayerId)
      oldPlayerCost == LookupCost(oldPlayerId, failOld)
      newPlayerCost == LookupCost(newPlayerId, failNew)
      newBudget == NewBudget(u.budget, oldPlayerCost, newPlayerCost)
      rolled == u.currentGameweek # u.lastTransferGameweek
      u1 == Rollover(u)
      isWildcardActive == IsWildcardActive(u1)
      penaltyPoints == PenaltyFor(u1, isWildcardActive)
      currentTeam == [u.team EXCEPT ![oldPlayerIndex] = newPlayerId]
      r1 == [r EXCEPT !.oldPlayerCost = oldPlayerCost,
                      !.newPlayerCost = newPlayerCost]
      r2 == [r1 EXCEPT !.rolled = rolled,
                       !.isWildcardActive = isWildcardActive,
                       !.penaltyPoints = penaltyPoints]
  IN
  IF ~u.exists THEN Fail(u, r, "UserNotFound")
  ELSE IF ~u.locked THEN Fail(u, r, "NotLocked")
  ELSE IF Len(u.team) # TeamSize THEN Fail(u, r, "TeamNotComplete")
  ELSE IF oldPlayerIndex = 0 THEN Fail(u, r, "PlayerNotInRoster")
  ELSE IF CannotAfford(newBudget)
    THEN Fail(u, [r1 EXCEPT !.remaining = ToFixed1(newBudget)], "BudgetError")
  \* the rollover is saved on its own, before the club check
  ELSE IF ~ClubCapOk(currentTeam, clubFailed) THEN Fail(u1, r2, "ClubCapError")
  ELSE Reply([u1 EXCEPT !.team = currentTeam,
                        !.budget = newBudget,
                        !.points = IF penaltyPoints > 0
                                     THEN Max(0, @ - PenaltyPoints) ELSE @,
                        !.freeTransfers =
                            NextFreeTransfers(@, isWildcardActive)],
             [r2 EXCEPT !.ok = TRUE])

-----------------------------------------------------------------------------
(* POST /activate-wildcard, /activate-triple-captain, /activate-wild-bench *)

\* the card played on a team that was never submitted
ActivateWildcardUnlocked(u) ==
  LET r == [NoResp EXCEPT !.op = "activate-wildcard"] IN
  IF ~u.exists THEN Fail(u, r, "UserNotFound")
  ELSE IF u.wildcardUsed THEN Fail(u, r, "CardAlreadyUsed")
  ELSE Reply([u EXCEPT !.wildcardUsed = TRUE,
                       !.wildcardGameweek = u.currentGameweek],
             [r EXCEPT !.ok = TRUE, !.isWildcardActive = TRUE])

ActivateWildcard(u) ==
  LET r == [NoResp EXCEPT !.op = "activate-wildcard"] IN
  IF ~u.exists THEN Fail(u, r, "UserNotFound")
  ELSE IF u.wildcardUsed THEN Fail(u, r, "CardAlreadyUsed")
  ELSE IF u.locked = FALSE THEN Fail(u, r, "NotLocked")
  ELSE Reply([u EXCEPT !.wildcardUsed = TRUE,
                       !.wildcardGameweek = u.currentGameweek],
             [r EXCEPT !.ok = TRUE, !.isWildcardActive = TRUE])

\* any player accepted as captain
ActivateTripleCaptainAnyone(u, captainId) ==
  LET r == [NoResp EXCEPT !.op = "activate-triple-captain",
                          !.captainId = captainId] IN
  IF ~u.exists THEN Fail(u, r, "UserNotFound")
  ELSE IF u.tripleCaptainUsed THEN Fail(u, r, "CardAlreadyUsed")
  ELSE IF u.locked = FALSE THEN Fail(u, r, "NotLocked")
  ELSE Reply([u EXCEPT !.captainId = captainId,
                       !.tripleCaptainUsed = TRUE,
                       !.tripleCaptainGameweek = u.currentGameweek],
             [r EXCEPT !.ok = TRUE, !.isTripleCaptainActive = TRUE])

ActivateTripleCaptain(u, captainId) ==
  LET r == [NoResp EXCEPT !.op = "activate-triple-captain",
                          !.captainId = captainId] IN
  IF ~u.exists THEN Fail(u, r, "UserNotFound")
  ELSE IF u.tripleCaptainUsed THEN Fail(u, r, "CardAlreadyUsed")
  ELSE IF u.locked = FALSE THEN Fail(u, r, "NotLocked")
  ELSE IF captainId \notin Range(u.team) THEN Fail(u, r, "PlayerNotInRoster")
  ELSE Reply([u EXCEPT !.captainId = captainId,
                       !.tripleCaptainUsed = TRUE,
                       !.tripleCaptainGameweek = u.currentGameweek],
             [r EXCEPT !.ok = TRUE, !.isTripleCaptainActive = TRUE])

\* the 2-player check of activate-wild-bench: the roster's clubs are counted
\* (lookups that fail are skipped), the extra player is added, and only the
\* extra player's club is compared with the limit; when the extra player's
\* own lookup fails the whole check is skipped
WildBenchCapOk(team, wildBenchPlayerId, failWildBench, clubFailed) ==
  \/ failWildBench
  \/ ClubCount(team, Len(team), Club(wildBenchPlayerId), clubFailed) + 1
       <= ClubLimit

\* the card played a second time
ActivateWildBenchAgain(u, wildBenchPlayerId, failWildBench, clubFailed) ==
  LET r == [NoResp EXCEPT !.op = "activate-wild-bench",
                          !.wildBenchPlayerId = wildBenchPlayerId] IN
  IF ~u.exists THEN Fail(u, r, "UserNotFound")
  ELSE IF u.locked = FALSE THEN Fail(u, r, "NotLocked")
  ELSE IF wildBenchPlayerId \in Range(u.team)
    THEN Fail(u, r, "PlayerInRoster")
  ELSE IF ~WildBenchCapOk(u.team, wildBenchPlayerId, failWildBench, clubFailed)
    THEN Fail(u, r, "ClubCapError")
  ELSE Reply([u EXCEPT !.wildBenchPlayer = wildBenchPlayerId,
                       !.wildBenchUsed = TRUE,
                       !.wildBenchGameweek = u.currentGameweek],
             [r EXCEPT !.ok = TRUE, !.isWildBenchActive = TRUE])

ActivateWildBench(u, wildBenchPlayerId, failWildBench, clubFailed) ==
  LET r == [NoResp EXCEPT !.op = "activate-wild-bench",
                          !.wildBenchPlayerId = wildBenchPlayerId] IN
  IF ~u.exists THEN Fail(u, r, "UserNotFound")
  ELSE IF u.wildBenchUsed THEN Fail(u, r, "CardAlreadyUsed")
  ELSE IF u.locked = FALSE THEN Fail(u, r, "NotLocked")
  ELSE IF wildBenchPlayerId \in Range(u.team)
    THEN Fail(u, r, "PlayerInRoster")
  ELSE IF ~WildBenchCapOk(u.team, wildBenchPlayerId, failWildBench, clubFailed)
    THEN Fail(u, r, "ClubCapError")
  ELSE Reply([u EXCEPT !.wildBenchPlayer = wildBenchPlayerId,
                       !.wildBenchUsed = TRUE,
                       !.wildBenchGameweek = u.currentGameweek],
             [r EXCEPT !.ok = TRUE, !.isWildBenchActive = TRUE])

-----------------------------------------------------------------------------
(* POST /update-points *)

IsWildBenchActive(u) ==
  u.wildBenchUsed /\ u.wildBenchGameweek = u.currentGameweek

IsTripleCaptainActive(u) ==
  u.tripleCaptainUsed /\ u.tripleCaptainGameweek = u.currentGameweek

\* starting 11 + Wild Bench
AllPlayerIds(u) ==
  IF IsWildBenchActive(u) /\ u.wildBenchPlayer # Null
    THEN Append(u.team, u.wildBenchPlayer)
    ELSE u.team

\* the triple applied to every player while the card is active
PlayerPointsAllTripled(u, s, playerId, failed) ==
  IF playerId \in failed THEN 0
  ELSE IF IsTripleCaptainActive(u) THEN Pts(s, playerId) * TripleFactor
  ELSE Pts(s, playerId)

\* one pass of the scoring loop: the points counted for playerId
PlayerPoints(u, s, playerId, failed) ==
  IF playerId \in failed THEN 0
  ELSE IF IsTripleCaptainActive(u) /\ playerId = u.captainId
    THEN Pts(s, playerId) * TripleFactor
  ELSE Pts(s, playerId)

PlayerStats(u, s, failed) ==
  LET ids == AllPlayerIds(u) IN
  [i \in 1..Len(ids) |->
     [player_id |-> ids[i], points |-> PlayerPoints(u, s, ids[i], failed)]]

RECURSIVE SumPoints(_)
SumPoints(stats) ==
  IF stats = <<>> THEN 0 ELSE Head(stats).points + SumPoints(Tail(stats))

\* a write-back that adds the gameweek's total to the season total
WriteBackAdded(u, totalPoints) ==
  [u EXCEPT !.points = totalPoints, !.totalPoints = @ + totalPoints]

\* user.points = totalPoints; user.totalPoints = totalPoints
WriteBack(u, totalPoints) ==
  [u EXCEPT !.points = totalPoints, !.totalPoints = totalPoints]

UpdatePoints(u, s, failed) ==
  LET r == [NoResp EXCEPT !.op = "update-points", !.snapshot = s,
                          !.statFailed = failed]
      playerStats == PlayerStats(u, s, failed)
      totalPoints == SumPoints(playerStats)
  IN
  IF ~u.exists THEN Fail(u, r, "UserNotFound")
  ELSE IF Len(u.team) # TeamSize THEN Fail(u, r, "TeamNotComplete")
  ELSE Reply(WriteBack(u, totalPoints),
             [r EXCEPT !.ok = TRUE, !.points = totalPoints,
                       !.playerStats = playerStats,
                       !.isWildBenchActive = IsWildBenchActive(u),
                       !.isTripleCaptainActive = IsTripleCaptainActive(u)])

-----------------------------------------------------------------------------
(* Requests enumerated by the model *)

Rosters ==
  { [i \in 1..11 |-> i],                                 \* cost 73.7
    [i \in 1..11 |-> IF i = 11 THEN 12 ELSE i],          \* cost 75.0
    [i \in 1..11 |-> i + 1],                             \* cost 77.0
    [i \in 1..11 |-> IF i > 9 THEN i + 2 ELSE i],        \* 1, 7, 13: one club
    [i \in 1..10 |-> i],                                 \* ten players
    [i \in 1..11 |-> IF i = 11 THEN 1 ELSE i] }          \* player 1 twice

\* player ids whose element-summary request fails during one handler run
SaveFailures == {{}, {13}}
Failures == {{}, {7}, {12}}

TransferOut == {1, 11}
TransferIn == {6, 12, 13}
CaptainIds == {1, 13}
WildBenchIds == {12, 13}
StatFailures == {{}, {1}}

-----------------------------------------------------------------------------
(* Actions of the sequential specification *)

Apply(out) ==
  /\ user' = out.user
  /\ resp' = out.res

DoConnectWallet ==
  /\ Apply(ConnectWallet(user))
  /\ UNCHANGED <<nTransfers, slots>>

DoSaveTeam ==
  \E team \in Rosters, failed \in SaveFailures :
    /\ Apply(SaveTeam(user, team, {}, failed))
    /\ UNCHANGED <<nTransfers, slots>>

DoTransferPlayer ==
  \E o \in TransferOut, n \in TransferIn, failed \in Failures :
    LET out == TransferPlayer(user, o, n, o \in failed, n \in failed, failed) IN
    /\ nTransfers < MaxTransfers
    /\ Apply(out)
    /\ nTransfers' = IF out.res.ok THEN nTransfers + 1 ELSE nTransfers
    /\ UNCHANGED slots

DoActivateWildcard ==
  /\ Apply(ActivateWildcard(user))
  /\ UNCHANGED <<nTransfers, slots>>

DoActivateTripleCaptain ==
  \E c \in CaptainIds :
    /\ Apply(ActivateTripleCaptain(user, c))
    /\ UNCHANGED <<nTransfers, slots>>

DoActivateWildBench ==
  \E w \in WildBenchIds, failed \in Failures :
    /\ Apply(ActivateWildBench(user, w, w \in failed, failed))
    /\ UNCHANGED <<nTransfers, slots>>

DoUpdatePoints ==
  \E s \in Snapshots, failed \in StatFailures :
    /\ Apply(UpdatePoints(user, s, failed))
    /\ UNCHANGED <<nTransfers, slots>>

Init ==
  /\ user = NoUser
  /\ resp = NoResp
  /\ nTransfers = 0
  /\ slots = <<>>

Next ==
  \/ DoConnectWallet
  \/ DoSaveTeam
  \/ DoTransferPlayer
  \/ DoActivateWildcard
  \/ DoActivateTripleCaptain
  \/ DoActivateWildBench
  \/ DoUpdatePoints

Spec == Init /\ [][Next]_vars

-----------------------------------------------------------------------------
(* The Gameweek Clock.  No handler of this revision changes               *)
(* currentGameweek; the specification SpecGW adds the clock of the design  *)
(* as an outside step that moves a user's document to the next gameweek,   *)
(* so that the rollover branch of transfer-player has something to do.     *)
(* It keeps the handlers that read or write what the rollover touches.     *)

AdvanceGameweek ==
  /\ user.exists
  /\ user.currentGameweek < MaxGameweek
  /\ user' = [user EXCEPT !.currentGameweek = @ + 1]
  /\ resp' = [NoResp EXCEPT !.op = "advance-gameweek", !.ok = TRUE]
  /\ UNCHANGED <<nTransfers, slots>>

NextGW ==
  \/ DoConnectWallet
  \/ DoSaveTeam
  \/ DoTransferPlayer
  \/ DoActivateWildcard
  \/ DoUpdatePoints
  \/ AdvanceGameweek

SpecGW == Init /\ [][NextGW]_vars

-----------------------------------------------------------------------------
(* Team submission.  SpecSave submits a wider set of bodies to save-team   *)
(* (ids sent as strings, the same players in another order) and follows    *)
(* an accepted roster through transfers.                                   *)

SubmittedRosters ==
  Rosters \cup
  { <<1, 2, 3, 4, 5, 6, 8, 9, 10, 11, 1>>,     \* player 1 twice, no player 7
    <<12, 10, 5, 8, 6, 4, 9, 1, 3, 7, 2>>,     \* the players of cost 75.0
    <<8, 5, 10, 12, 7, 4, 9, 1, 2, 6, 3>> }    \* the players of cost 75.0

\* positions of a submitted roster whose id is a JSON string
StringSlots == {{}, {11}}

DoSubmitTeam ==
  \E team \in SubmittedRosters, strings \in StringSlots,
     failed \in SaveFailures :
    /\ Apply(SaveTeam(user, team, strings, failed))
    /\ UNCHANGED <<nTransfers, slots>>

NextSave ==
  \/ DoConnectWallet
  \/ DoSubmitTeam
  \/ DoTransferPlayer

SpecSave == Init /\ [][NextSave]_vars

-----------------------------------------------------------------------------
(* Concurrent requests of one user.  A handler is async: between its       *)
(* findOne and its save (or findOneAndUpdate) other requests run.  SpecConc*)
(* splits transfer-player (requests A and B) and connect-wallet (request   *)
(* C) at that point; the other handlers stay single steps.                 *)

Requests == {"A", "B"}

IdleSlot ==
  [pc |-> "idle", doc |-> NoUser, oldPlayerId |-> 0, newPlayerId |-> 0,
   overlapped |-> FALSE, ok |-> FALSE]

\* user.save() of a document loaded earlier: Mongoose sends a $set of the
\* paths modified since the load, team elements by index, and leaves the
\* rest of the stored document as it is now.  markModified('points') makes
\* the penalty branch send points even when the value is the same.
SaveDoc(db, loaded, new, pointsMarked) ==
  [f \in DOMAIN db |->
     IF f = "team"
       THEN [i \in DOMAIN db.team |->
               IF i \in DOMAIN new.team /\ i \in DOMAIN loaded.team
                  /\ new.team[i] # loaded.team[i]
                 THEN new.team[i] ELSE db.team[i]]
     ELSE IF f = "points" /\ pointsMarked THEN new[f]
     ELSE IF new[f] # loaded[f] THEN new[f]
     ELSE db[f]]

\* save-team as the concurrent specification submits it
ConcSaveTeam ==
  /\ Apply(SaveTeam(user, [i \in 1..TeamSize |-> i], {}, {}))
  /\ UNCHANGED <<nTransfers, slots>>

\* request B is the one that arrives second
TransferRead(k) ==
  \E o \in TransferOut, n \in TransferIn :
    /\ slots[k].pc = "idle"
    /\ k = "B" => slots["A"].pc # "idle"
    /\ user.exists
    /\ slots' = [slots EXCEPT ![k] =
         [IdleSlot EXCEPT !.pc = "loaded", !.doc = user,
                          !.oldPlayerId = o, !.newPlayerId = n,
                          !.overlapped =
                             \E j \in Requests : slots[j].pc = "loaded"]]
    /\ UNCHANGED <<user, resp, nTransfers>>

TransferSave(k) ==
  LET sl == slots[k]
      out == TransferPlayer(sl.doc, sl.oldPlayerId, sl.newPlayerId,
                            FALSE, FALSE, {})
  IN
  /\ sl.pc = "loaded"
  /\ user' = IF out.res.ok
               THEN SaveDoc(user, sl.doc, out.user, out.res.penaltyPoints > 0)
               ELSE user
  /\ resp' = out.res
  /\ slots' = [slots EXCEPT ![k].pc = "done", ![k].ok = out.res.ok]
  /\ UNCHANGED nTransfers

\* connect-wallet up to its lock check (findOne)
ConnectCheck ==
  /\ slots["C"].pc = "idle"
  /\ IF user.exists /\ user.locked
       THEN /\ slots' = [slots EXCEPT !["C"].pc = "done"]
            /\ resp' = ConnectWallet(user).res
       ELSE /\ slots' = [slots EXCEPT !["C"].pc = "checked", !["C"].doc = user]
            /\ UNCHANGED resp
  /\ UNCHANGED <<user, nTransfers>>

\* connect-wallet's findOneAndUpdate, on the document as stored by then
ConnectWrite ==
  /\ slots["C"].pc = "checked"
  /\ user' = ConnectUpdate(user)
  /\ resp' = [NoResp EXCEPT !.op = "connect-wallet", !.ok = TRUE]
  /\ slots' = [slots EXCEPT !["C"].pc = "done", !["C"].ok = TRUE]
  /\ UNCHANGED nTransfers

InitConc ==
  /\ user = NoUser
  /\ resp = NoResp
  /\ nTransfers = 0
  /\ slots = [k \in Requests \cup {"C"} |-> IdleSlot]

NextConc ==
  \/ DoConnectWallet
  \/ ConcSaveTeam
  \/ DoActivateWildcard
  \/ \E k \in Requests : TransferRead(k)
  \/ \E k \in Requests : TransferSave(k)
  \/ ConnectCheck
  \/ ConnectWrite

SpecConc == InitConc /\ [][NextConc]_vars

-----------------------------------------------------------------------------
(* The earlier revision src/unnamed/part_001: budget 100, one counter      *)
(* transfersRemaining, a position rule in make-transfer, and the route     *)
(* reset-transfers that moves a user to the next gameweek.  Its handlers   *)
(* look players up in a list allPlayers that no line of the file defines;  *)
(* the model fills it with the catalog records the route /players builds   *)
(* (id, element_type, now_cost).  Spec01 runs this revision on the same    *)
(* variables.                                                              *)

BudgetCeiling01 == 1000

\* element_type of the provider: 1 GK, 2 DEF, 3 MID, 4 FWD
ElementType(p) ==
  IF p \in {1, 13} THEN 1 ELSE IF p <= 5 THEN 2 ELSE IF p <= 9 THEN 3 ELSE 4

\* the catalog list the handlers search
AllPlayers ==
  [p \in PlayerIds |->
     [id |-> p, element_type |-> ElementType(p), now_cost |-> NowCost[p]]]

\* allPlayers.find(p => p.id === playerId) found a record
Found(playerId) == playerId \in DOMAIN AllPlayers

NoUser01 ==
  [exists |-> FALSE, joined |-> FALSE, locked |-> FALSE, team |-> <<>>,
   entries |-> 0, points |-> 0, totalPoints |-> 0,
   budget |-> Exact(BudgetCeiling01), transfersRemaining |-> 1,
   currentGameweek |-> 1, wildcardUsed |-> FALSE]

ConnectWallet01(u) ==
  LET r == [NoResp EXCEPT !.op = "connect-wallet"] IN
  IF u.exists /\ u.locked
    THEN Fail(u, r, "AlreadyLocked")
    ELSE Reply([u EXCEPT !.exists = TRUE, !.joined = TRUE,
                         !.currentGameweek = 1,
                         !.budget = Exact(BudgetCeiling01),
                         !.transfersRemaining = 1,
                         !.wildcardUsed = FALSE],
               [r EXCEPT !.ok = TRUE])

\* totalCost after the loop has added the first n players; a player the
\* catalog does not hold adds nothing
RECURSIVE SumCost01(_, _)
SumCost01(team, n) ==
  IF n = 0 THEN Exact(0)
  ELSE IF Found(team[n])
    THEN DAdd(SumCost01(team, n - 1), AllPlayers[team[n]].now_cost)
    ELSE SumCost01(team, n - 1)

SaveTeam01(u, team) ==
  LET r == [NoResp EXCEPT !.op = "save-team"]
      totalCost == SumCost01(team, Len(team))
  IN
  IF Len(team) # TeamSize THEN Fail(u, r, "SizeError")
  ELSE IF Cardinality(Range(team)) # Len(team)
    THEN Fail(u, r, "DuplicateError")
  ELSE IF DGreater(totalCost, Exact(BudgetCeiling01))
    THEN Fail(u, [r EXCEPT !.totalCost = totalCost,
                           !.remaining =
                             ToFixed1(DSub(Exact(BudgetCeiling01), totalCost))],
              "BudgetError")
  ELSE IF ~u.exists THEN Fail(u, r, "NotJoined")
  ELSE IF u.locked THEN Fail(u, r, "AlreadyLocked")
  ELSE Reply([u EXCEPT !.team = team, !.locked = TRUE,
                       !.entries = @ + 1, !.points = 0,
                       !.budget = DSub(Exact(BudgetCeiling01), totalCost)],
             [r EXCEPT !.ok = TRUE, !.totalCost = totalCost])

\* the scoring loop of this revision: the roster only, no cards
PlayerStats01(u, s, failed) ==
  [i \in 1..Len(u.team) |->
     [player_id |-> u.team[i],
      points |-> IF u.team[i] \in failed THEN 0 ELSE Pts(s, u.team[i])]]

UpdatePoints01(u, s, failed) ==
  LET r == [NoResp EXCEPT !.op = "update-points", !.snapshot = s,
                          !.statFailed = failed]
      playerStats == PlayerStats01(u, s, failed)
      totalPoints == SumPoints(playerStats)
  IN
  IF ~u.exists THEN Fail(u, r, "UserNotFound")
  ELSE IF Len(u.team) # TeamSize THEN Fail(u, r, "TeamNotComplete")
  ELSE Reply(WriteBack(u, totalPoints),
             [r EXCEPT !.ok = TRUE, !.points = totalPoints,
                       !.playerStats = playerStats])

\* a position rule that lets every pair through
SamePositionAlways(outgoingPlayer, incomingPlayer) == TRUE

\* outgoingPlayer.element_type === incomingPlayer.element_type
SamePosition(outgoingPlayer, incomingPlayer) ==
  outgoingPlayer.element_type = incomingPlayer.element_type

MakeTransfer(u, outgoingPlayerId, incomingPlayerId) ==
  LET r == [NoResp EXCEPT !.op = "make-transfer",
                          !.oldPlayerId = outgoingPlayerId,
                          !.newPlayerId = incomingPlayerId]
      outgoingPlayer == AllPlayers[outgoingPlayerId]
      incomingPlayer == AllPlayers[incomingPlayerId]
      newBudget == DSub(DAdd(u.budget, outgoingPlayer.now_cost),
                        incomingPlayer.now_cost)
      outgoingIndex == IndexOf(u.team, outgoingPlayerId)
      r1 == [r EXCEPT !.oldPlayerCost = outgoingPlayer.now_cost,
                      !.newPlayerCost = incomingPlayer.now_cost]
  IN
  IF ~u.exists THEN Fail(u, r, "UserNotFound")
  ELSE IF ~u.locked THEN Fail(u, r, "NotLocked")
  ELSE IF u.transfersRemaining <= 0 /\ ~u.wildcardUsed
    THEN Fail(u, r, "NoFreeTransfers")
  ELSE IF ~Found(outgoingPlayerId) \/ ~Found(incomingPlayerId)
    THEN Fail(u, r, "UnknownPlayer")
  ELSE IF ~SamePosition(outgoingPlayer, incomingPlayer)
    THEN Fail(u, r, "PositionMismatch")
  ELSE IF DNegative(newBudget)
    THEN Fail(u, [r1 EXCEPT !.remaining = ToFixed1(newBudget)], "BudgetError")
  ELSE IF outgoingIndex = 0 THEN Fail(u, r1, "PlayerNotInRoster")
  ELSE Reply([u EXCEPT !.team = [@ EXCEPT ![outgoingIndex] = incomingPlayerId],
                       !.budget = newBudget,
                       !.transfersRemaining = IF @ > 0 THEN @ - 1 ELSE 0],
             [r1 EXCEPT !.ok = TRUE])

ResetTransfers(u) ==
  LET r == [NoResp EXCEPT !.op = "reset-transfers"] IN
  IF ~u.exists THEN Fail(u, r, "UserNotFound")
  ELSE Reply([u EXCEPT !.transfersRemaining = 1,
                       !.wildcardUsed = FALSE,
                       !.currentGameweek = @ + 1],
             [r EXCEPT !.ok = TRUE])

\* requests enumerated for this revision; player 14 is not in the catalog
MakeTransferOut == {1, 11}
MakeTransferIn == {6, 12, 13, 14}

DoConnectWallet01 ==
  /\ Apply(ConnectWallet01(user))
  /\ UNCHANGED <<nTransfers, slots>>

DoSaveTeam01 ==
  \E team \in Rosters :
    /\ Apply(SaveTeam01(user, team))
    /\ UNCHANGED <<nTransfers, slots>>

DoUpdatePoints01 ==
  \E s \in Snapshots, failed \in StatFailures :
    /\ Apply(UpdatePoints01(user, s, failed))
    /\ UNCHANGED <<nTransfers, slots>>

DoMakeTransfer ==
  \E o \in MakeTransferOut, n \in MakeTransferIn :
    LET out == MakeTransfer(user, o, n) IN
    /\ nTransfers < MaxTransfers
    /\ Apply(out)
    /\ nTransfers' = IF out.res.ok THEN nTransfers + 1 ELSE nTransfers
    /\ UNCHANGED slots

DoResetTransfers ==
  /\ user.currentGameweek < MaxGameweek
  /\ Apply(ResetTransfers(user))
  /\ UNCHANGED <<nTransfers, slots>>

Init01 ==
  /\ user = NoUser01
  /\ resp = NoResp
  /\ nTransfers = 0
  /\ slots = <<>>

Next01 ==
  \/ DoConnectWallet01
  \/ DoSaveTeam01
  \/ DoUpdatePoints01
  \/ DoMakeTransfer
  \/ DoResetTransfers

Spec01 == Init01 /\ [][Next01]_vars

-----------------------------------------------------------------------------
(* The revision src/server.js: budget 100, wildcard, the same rollover and *)
(* free-transfer counter as part_005, but a transfer-player without club   *)
(* check and without penalty.  Its activate-wildcard is the handler of     *)
(* part_005 line for line, and its update-points the handler of part_001;  *)
(* SpecServer runs those definitions with this revision's connect-wallet,  *)
(* save-team and transfer-player.                                          *)

BudgetCeilingServer == 1000

NoUserServer == [NoUser EXCEPT !.budget = Exact(BudgetCeilingServer)]

ConnectWalletServer(u) ==
  LET r == [NoResp EXCEPT !.op = "connect-wallet"] IN
  IF u.exists /\ u.locked
    THEN Fail(u, r, "AlreadyLocked")
    ELSE Reply([u EXCEPT !.exists = TRUE, !.joined = TRUE,
                         !.currentGameweek = 1,
                         !.budget = Exact(BudgetCeilingServer),
                         !.freeTransfers = 1, !.lastTransferGameweek = 1,
                         !.wildcardUsed = FALSE, !.wildcardGameweek = Null],
               [r EXCEPT !.ok = TRUE])

SaveTeamServer(u, team, failed) ==
  LET r == [NoResp EXCEPT !.op = "save-team"]
      totalCost == SumCost(team, Len(team), failed)
  IN
  IF Len(team) # TeamSize THEN Fail(u, r, "SizeError")
  ELSE IF Cardinality(Range(team)) # Len(team)
    THEN Fail(u, r, "DuplicateError")
  ELSE IF DGreater(totalCost, Exact(BudgetCeilingServer))
    THEN Fail(u, [r EXCEPT !.totalCost = totalCost,
                           !.remaining =
                             ToFixed1(DSub(Exact(BudgetCeilingServer),
                                           totalCost))],
              "BudgetError")
  ELSE IF ~u.exists THEN Fail(u, r, "NotJoined")
  ELSE IF u.locked THEN Fail(u, r, "AlreadyLocked")
  ELSE Reply([u EXCEPT !.team = team, !.locked = TRUE,
                       !.entries = @ + 1, !.points = 0,
                       !.budget = DSub(Exact(BudgetCeilingServer), totalCost)],
             [r EXCEPT !.ok = TRUE, !.totalCost = totalCost])

TransferPlayerServer(u, oldPlayerId, newPlayerId, failOld, failNew) ==
  LET r == [NoResp EXCEPT !.op = "transfer-player",
                          !.oldPlayerId = oldPlayerId,
                          !.newPlayerId = newPlayerId]
      oldPlayerIndex == IndexOf(u.team, oldPlayerId)
      oldPlayerCost == LookupCost(oldPlayerId, failOld)
      newPlayerCost == LookupCost(newPlayerId, failNew)
      newBudget == NewBudget(u.budget, oldPlayerCost, newPlayerCost)
      rolled == u.currentGameweek # u.lastTransferGameweek
      u1 == Rollover(u)
      isWildcardActive == IsWildcardActive(u1)
      r1 == [r EXCEPT !.oldPlayerCost = oldPlayerCost,
                      !.newPlayerCost = newPlayerCost]
  IN
  IF ~u.exists THEN Fail(u, r, "UserNotFound")
  ELSE IF ~u.locked THEN Fail(u, r, "NotLocked")
  ELSE IF Len(u.team) # TeamSize THEN Fail(u, r, "TeamNotComplete")
  ELSE IF oldPlayerIndex = 0 THEN Fail(u, r, "PlayerNotInRoster")
  ELSE IF CannotAfford(newBudget)
    THEN Fail(u, [r1 EXCEPT !.remaining = ToFixed1(newBudget)], "BudgetError")
  ELSE Reply([u1 EXCEPT !.team = [@ EXCEPT ![oldPlayerIndex] = newPlayerId],
                        !.budget = newBudget,
                        !.freeTransfers =
                            NextFreeTransfers(@, isWildcardActive)],
             [r1 EXCEPT !.ok = TRUE, !.rolled = rolled,
                        !.isWildcardActive = isWildcardActive])

DoConnectWalletServer ==
  /\ Apply(ConnectWalletServer(user))
  /\ UNCHANGED <<nTransfers, slots>>

DoSaveTeamServer ==
  \E team \in Rosters, failed \in SaveFailures :
    /\ Apply(SaveTeamServer(user, team, failed))
    /\ UNCHANGED <<nTransfers, slots>>

DoTransferPlayerServer ==
  \E o \in TransferOut, n \in TransferIn, failed \in Failures :
    LET out == TransferPlayerServer(user, o, n, o \in failed, n \in failed) IN
    /\ nTransfers < MaxTransfers
    /\ Apply(out)
    /\ nTransfers' = IF out.res.ok THEN nTransfers + 1 ELSE nTransfers
    /\ UNCHANGED slots

InitServer ==
  /\ user = NoUserServer
  /\ resp = NoResp
  /\ nTransfers = 0
  /\ slots = <<>>

NextServer ==
  \/ DoConnectWalletServer
  \/ DoSaveTeamServer
  \/ DoTransferPlayerServer
  \/ DoActivateWildcard
  \/ DoUpdatePoints01

SpecServer == InitServer /\ [][NextServer]_vars

-----------------------------------------------------------------------------
(* The revision src/unnamed/part_004: budget 100, no cards and no          *)
(* gameweek rollover; its make-transfer refuses a transfer when no free    *)
(* transfer is left.  Its update-points is the handler of part_001 line    *)
(* for line.  transferHistory gets one entry per transfer made and is read *)
(* by no handler; transfersUsed counts the same transfers.                 *)

BudgetCeiling04 == 1000

NoUser04 ==
  [exists |-> FALSE, joined |-> FALSE, locked |-> FALSE, team |-> <<>>,
   entries |-> 0, points |-> 0, totalPoints |-> 0,
   budget |-> Exact(BudgetCeiling04), freeTransfers |-> 1,
   currentGameweek |-> 1, transfersUsed |-> 0]

ConnectWallet04(u) ==
  LET r == [NoResp EXCEPT !.op = "connect-wallet"] IN
  IF u.exists /\ u.locked
    THEN Fail(u, r, "AlreadyLocked")
    ELSE Reply([u EXCEPT !.exists = TRUE, !.joined = TRUE,
                         !.currentGameweek = 1,
                         !.budget = Exact(BudgetCeiling04),
                         !.freeTransfers = 1, !.transfersUsed = 0],
               [r EXCEPT !.ok = TRUE])

SaveTeam04(u, team, failed) ==
  LET r == [NoResp EXCEPT !.op = "save-team"]
      totalCost == SumCost(team, Len(team), failed)
  IN
  IF Len(team) # TeamSize THEN Fail(u, r, "SizeError")
  ELSE IF Cardinality(Range(team)) # Len(team)
    THEN Fail(u, r, "DuplicateError")
  ELSE IF DGreater(totalCost, Exact(BudgetCeiling04))
    THEN Fail(u, [r EXCEPT !.totalCost = totalCost,
                           !.remaining =
                             ToFixed1(DSub(Exact(BudgetCeiling04), totalCost))],
              "BudgetError")
  ELSE IF ~u.exists THEN Fail(u, r, "NotJoined")
  ELSE IF u.locked THEN Fail(u, r, "AlreadyLocked")
  ELSE Reply([u EXCEPT !.team = team, !.locked = TRUE,
                       !.entries = @ + 1, !.points = 0,
                       !.budget = DSub(Exact(BudgetCeiling04), totalCost)],
             [r EXCEPT !.ok = TRUE, !.totalCost = totalCost])

\* the check that lets a user without a free transfer through
NoFreeTransferNever(freeTransfers) == FALSE

\* user.freeTransfers <= 0
NoFreeTransfer(freeTransfers) == freeTransfers <= 0

\* A failed lookup of either player ends the request; a lookup that
\* answers without a cost prices the player at the fallback.
MakeTransfer04(u, fromPlayerId, toPlayerId, failFrom, failTo) ==
  LET r == [NoResp EXCEPT !.op = "make-transfer",
                          !.oldPlayerId = fromPlayerId,
                          !.newPlayerId = toPlayerId]
      fromCost == LookupCost(fromPlayerId, FALSE)
      toCost == LookupCost(toPlayerId, FALSE)
      costDifference == DSub(toCost, fromCost)
      fromPlayerIndex == IndexOf(u.team, fromPlayerId)
      r1 == [r EXCEPT !.oldPlayerCost = fromCost, !.newPlayerCost = toCost]
  IN
  IF ~u.exists THEN Fail(u, r, "UserNotFound")
  ELSE IF ~u.locked THEN Fail(u, r, "NotLocked")
  ELSE IF failFrom THEN Fail(u, r, "FromPlayerError")
  ELSE IF failTo THEN Fail(u, r, "ToPlayerError")
  ELSE IF DGreater(costDifference, u.budget)
    THEN Fail(u, [r1 EXCEPT !.remaining =
                              ToFixed1(DSub(u.budget, costDifference))],
              "BudgetError")
  ELSE IF NoFreeTransfer(u.freeTransfers)
    THEN Fail(u, r1, "NoFreeTransfers")
  ELSE IF fromPlayerIndex = 0 THEN Fail(u, r1, "PlayerNotInRoster")
  ELSE Reply([u EXCEPT !.team = [@ EXCEPT ![fromPlayerIndex] = toPlayerId],
                       !.budget = DSub(@, costDifference),
                       !.freeTransfers = @ - 1,
                       !.transfersUsed = @ + 1],
             [r1 EXCEPT !.ok = TRUE])

DoConnectWallet04 ==
  /\ Apply(ConnectWallet04(user))
  /\ UNCHANGED <<nTransfers, slots>>

DoSaveTeam04 ==
  \E team \in Rosters, failed \in SaveFailures :
    /\ Apply(SaveTeam04(user, team, failed))
    /\ UNCHANGED <<nTransfers, slots>>

DoMakeTransfer04 ==
  \E o \in TransferOut, n \in TransferIn, failed \in Failures :
    LET out == MakeTransfer04(user, o, n, o \in failed, n \in failed) IN
    /\ nTransfers < MaxTransfers
    /\ Apply(out)
    /\ nTransfers' = IF out.res.ok THEN nTransfers + 1 ELSE nTransfers
    /\ UNCHANGED slots

Init04 ==
  /\ user = NoUser04
  /\ resp = NoResp
  /\ nTransfers = 0
  /\ slots = <<>>

Next04 ==
  \/ DoConnectWallet04
  \/ DoSaveTeam04
  \/ DoMakeTransfer04
  \/ DoUpdatePoints01

Spec04 == Init04 /\ [][Next04]_vars

-----------------------------------------------------------------------------
(* The read side: GET /leaderboard and GET /prize-pool query the whole     *)
(* User collection.  In SpecBoard the variable user holds that collection, *)
(* one document per telegramId 1..MaxUsers, and nTransfers counts the      *)
(* write requests made.  The collection starts as one of a family of       *)
(* contests in progress (some users locked, with points the provider's     *)
(* totals gave them) and is written by the handlers above.                 *)

LeaderboardLimit == 10
PrizePerEntry == 10

UserIds == 1..MaxUsers

\* sort({ points: -1 }): a before b.  The store fixes no order among equal
\* points; tie says which way this query returned them.
SortsBefore(db, tie, a, b) ==
  \/ db[a].points > db[b].points
  \/ /\ db[a].points = db[b].points
     /\ IF tie = "asc" THEN a < b ELSE a > b

\* a find that does not filter on locked
FoundAll(db) == {i \in DOMAIN db : db[i].exists}

\* User.find({ locked: true })
FoundLocked(db) == {i \in DOMAIN db : db[i].exists /\ db[i].locked}

\* find, sort, limit(10), map to rank and points; id is the document the
\* entry was made from
Leaderboard(db, tie) ==
  LET found == FoundLocked(db)
      place(a) == 1 + Cardinality({b \in found : SortsBefore(db, tie, b, a)})
      n == IF Cardinality(found) < LeaderboardLimit
             THEN Cardinality(found) ELSE LeaderboardLimit
  IN [k \in 1..n |->
        LET a == CHOOSE a \in found : place(a) = k IN
        [rank |-> k, id |-> a, points |-> db[a].points]]

\* a count of everyone who joined
PrizePoolJoined(db) ==
  LET totalEntries == Cardinality(FoundAll(db)) IN
  [fst |-> totalEntries * PrizePerEntry, entries |-> totalEntries]

\* countDocuments({ locked: true })
PrizePool(db) ==
  LET totalEntries == Cardinality(FoundLocked(db)) IN
  [fst |-> totalEntries * PrizePerEntry, entries |-> totalEntries]

\* a user whose team is locked, with the given points of the gameweek
LockedUser(points) ==
  [NoUser EXCEPT !.exists = TRUE, !.joined = TRUE, !.locked = TRUE,
                 !.team = [i \in 1..TeamSize |-> i], !.entries = 1,
                 !.budget = DSub(Exact(BudgetCeiling),
                                 SumCost([i \in 1..TeamSize |-> i],
                                         TeamSize, {})),
                 !.points = points, !.totalPoints = points]

JoinedUser == [NoUser EXCEPT !.exists = TRUE, !.joined = TRUE]

\* points of user i in the contests the model starts from
PointsPattern(k, i) ==
  IF k = 1 THEN 0
  ELSE IF k = 2 THEN i
  ELSE IF k = 3 THEN (i * 5) % 7
  ELSE (i % 3) * 10

\* contests in progress: users 1..j have joined, those of them selected by
\* the locking pattern have a locked team
Contests ==
  { [i \in UserIds |->
       IF i > j THEN NoUser
       ELSE IF (m = 1) \/ (m = 2 /\ i % 2 = 0) \/ (m = 3 /\ i > 2)
         THEN LockedUser(PointsPattern(k, i))
       ELSE JoinedUser] :
     j \in {0, 1, 9, 10, 11, MaxUsers}, k \in 1..4, m \in 1..3 }

DoLeaderboard ==
  \E tie \in {"asc", "desc"} :
    /\ resp' = [op |-> "leaderboard", ok |-> TRUE,
                leaderboard |-> Leaderboard(user, tie)]
    /\ UNCHANGED <<user, nTransfers, slots>>

DoPrizePool ==
  /\ resp' = [op |-> "prize-pool", ok |-> TRUE, pool |-> PrizePool(user)]
  /\ UNCHANGED <<user, nTransfers, slots>>

\* a write request of user i: connect-wallet, save-team or update-points
WriteBoard(i, out) ==
  /\ nTransfers < MaxWrites
  /\ user' = [user EXCEPT ![i] = out.user]
  /\ resp' = out.res
  /\ nTransfers' = nTransfers + 1
  /\ UNCHANGED slots

DoConnectWalletBoard ==
  \E i \in UserIds : WriteBoard(i, ConnectWallet(user[i]))

DoSaveTeamBoard ==
  \E i \in UserIds :
    WriteBoard(i, SaveTeam(user[i], [p \in 1..TeamSize |-> p], {}, {}))

DoUpdatePointsBoard ==
  \E i \in UserIds, s \in Snapshots :
    WriteBoard(i, UpdatePoints(user[i], s, {}))

InitBoard ==
  /\ user \in Contests
  /\ resp = NoResp
  /\ nTransfers = 0
  /\ slots = <<>>

NextBoard ==
  \/ DoLeaderboard
  \/ DoPrizePool
  \/ DoConnectWalletBoard
  \/ DoSaveTeamBoard
  \/ DoUpdatePointsBoard

SpecBoard == InitBoard /\ [][NextBoard]_vars

-----------------------------------------------------------------------------
(* The revisions with a global entry counter.  src/unnamed/part_002 keeps  *)
(* users and globalEntries in memory; src/unnamed/part_006 keeps a User    *)
(* collection and the counter in the Stats document 'globalEntries'.  In   *)
(* Spec02 and Spec06 the variable user holds the users, one entry per id   *)
(* 1..MaxEntrants, slots holds the counter, and nTransfers counts the      *)
(* save-team requests that were answered with success.                     *)

FST_PER_ENTRY == 10

EntrantIds == 1..MaxEntrants

NoEntrant == [exists |-> FALSE, joined |-> FALSE, team |-> <<>>, points |-> 0]

\* request bodies: two rosters of eleven and one of ten
EntryTeams ==
  { [i \in 1..11 |-> i], [i \in 1..11 |-> i + 1], [i \in 1..10 |-> i] }

\* Math.floor(Math.random() * 150) + 20 lies in 20..169
SimulatedPoints == {20, 169}

\* part_002: POST /connect-wallet
ConnectWallet02(users, userId) ==
  IF ~users[userId].exists
    THEN [users EXCEPT ![userId] = [NoEntrant EXCEPT !.exists = TRUE]]
    ELSE users

\* part_002: POST /save-team
SaveTeam02(users, globalEntries, userId, team, points) ==
  LET r == [NoResp EXCEPT !.op = "save-team"] IN
  IF Len(team) # TeamSize
    THEN [users |-> users, globalEntries |-> globalEntries,
          res |-> [r EXCEPT !.err = "InvalidTeam"]]
  ELSE IF ~users[userId].exists
    THEN [users |-> users, globalEntries |-> globalEntries,
          res |-> [r EXCEPT !.err = "UserNotFound"]]
  ELSE [users |-> [users EXCEPT ![userId].team = team,
                                ![userId].joined = TRUE,
                                ![userId].points = points],
        globalEntries |-> globalEntries + 1,
        res |-> [r EXCEPT !.ok = TRUE]]

\* part_002: GET /prize-pool
PrizePool02(globalEntries) ==
  LET totalFST == globalEntries * FST_PER_ENTRY IN
  [fst |-> totalFST, entries |-> globalEntries]

\* part_006: POST /connect-wallet, an upsert that leaves team, points and
\* joined of an existing user alone
ConnectWallet06(users, userId, verified) ==
  IF verified /\ ~users[userId].exists
    THEN [users EXCEPT ![userId] = [NoEntrant EXCEPT !.exists = TRUE]]
    ELSE users

\* part_006: POST /save-team.  The update of the user has no upsert and
\* changes nothing when the user does not exist; the increment of the
\* counter follows in either case.
SaveTeam06(users, globalEntries, userId, team, points, verified) ==
  LET r == [NoResp EXCEPT !.op = "save-team"] IN
  IF ~verified
    THEN [users |-> users, globalEntries |-> globalEntries,
          res |-> [r EXCEPT !.err = "InvalidTelegramData"]]
  ELSE IF Len(team) # TeamSize
    THEN [users |-> users, globalEntries |-> globalEntries,
          res |-> [r EXCEPT !.err = "InvalidTeam"]]
  ELSE [users |-> IF users[userId].exists
                    THEN [users EXCEPT ![userId].team = team,
                                       ![userId].joined = TRUE,
                                       ![userId].points = points]
                    ELSE users,
        globalEntries |-> globalEntries + 1,
        res |-> [r EXCEPT !.ok = TRUE]]

\* part_006: GET /prize-pool; a missing Stats document reads as 0
PrizePool06(value) ==
  LET entries == value
      fst == entries * 10
  IN [fst |-> fst, entries |-> entries]

\* one save-team request and its writes
ApplyEntry(out) ==
  /\ nTransfers < MaxSaves
  /\ user' = out.users
  /\ slots' = [globalEntries |-> out.globalEntries]
  /\ resp' = out.res
  /\ nTransfers' = IF out.res.ok THEN nTransfers + 1 ELSE nTransfers

DoConnectWallet02 ==
  \E userId \in EntrantIds :
    /\ user' = ConnectWallet02(user, userId)
    /\ resp' = [NoResp EXCEPT !.op = "connect-wallet", !.ok = TRUE]
    /\ UNCHANGED <<nTransfers, slots>>

DoSaveTeam02 ==
  \E userId \in EntrantIds, team \in EntryTeams, points \in SimulatedPoints :
    ApplyEntry(SaveTeam02(user, slots.globalEntries, userId, team, points))

DoPrizePool02 ==
  /\ resp' = [op |-> "prize-pool", ok |-> TRUE,
              pool |-> PrizePool02(slots.globalEntries)]
  /\ UNCHANGED <<user, nTransfers, slots>>

DoConnectWallet06 ==
  \E userId \in EntrantIds, verified \in BOOLEAN :
    /\ user' = ConnectWallet06(user, userId, verified)
    /\ resp' = [NoResp EXCEPT !.op = "connect-wallet", !.ok = verified,
                              !.err = IF verified THEN "none"
                                      ELSE "InvalidTelegramData"]
    /\ UNCHANGED <<nTransfers, slots>>

DoSaveTeam06 ==
  \E userId \in EntrantIds, team \in EntryTeams, points \in SimulatedPoints,
     verified \in BOOLEAN :
    ApplyEntry(SaveTeam06(user, slots.globalEntries, userId, team, points,
                          verified))

DoPrizePool06 ==
  /\ resp' = [op |-> "prize-pool", ok |-> TRUE,
              pool |-> PrizePool06(slots.globalEntries)]
  /\ UNCHANGED <<user, nTransfers, slots>>

InitEntries ==
  /\ user = [i \in EntrantIds |-> NoEntrant]
  /\ resp = NoResp
  /\ nTransfers = 0
  /\ slots = [globalEntries |-> 0]

Next02 ==
  \/ DoConnectWallet02
  \/ DoSaveTeam02
  \/ DoPrizePool02

Spec02 == InitEntries /\ [][Next02]_vars

Next06 ==
  \/ DoConnectWallet06
  \/ DoSaveTeam06
  \/ DoPrizePool06

Spec06 == InitEntries /\ [][Next06]_vars

-----------------------------------------------------------------------------
(* Properties *)

IsTransfer(r) == r.op = "transfer-player"

ClubSize(team, c) == Cardinality({i \in 1..Len(team) : Club(team[i]) = c})

Projection(u) == <<u.team, u.budget, u.freeTransfers>>

\* request sl run alone, start to end, on document u
RunAlone(u, sl) ==
  TransferPlayer(u, sl.oldPlayerId, sl.newPlayerId, FALSE, FALSE, {}).user

\* C1: two transfer requests that both load the user before either saves
\* leave the roster, budget and free-transfer count that one of the two
\* serial orders of the same requests leaves.
C1_ConcurrentTransfersSerial ==
  LET a == slots["A"]
      b == slots["B"]
  IN
  ( /\ a.pc = "done" /\ b.pc = "done" /\ b.overlapped
    /\ a.doc = b.doc
    /\ slots["C"].pc = "idle"
    /\ user.wildcardUsed = a.doc.wildcardUsed )
  => Projection(user) \in { Projection(RunAlone(RunAlone(a.doc, a), b)),
                            Projection(RunAlone(RunAlone(a.doc, b), a)) }

\* C2: a locked user's roster has exactly 11 player ids, pairwise distinct.
C2_RosterElevenDistinct ==
  (user.exists /\ user.locked) =>
     /\ Len(user.team) = TeamSize
     /\ Cardinality(Range(user.team)) = TeamSize

\* C3: after a successful transfer-player no club has more than 2 players
\* in the roster.
C3_ClubCapAfterTransfer ==
  (IsTransfer(resp) /\ resp.ok) =>
     \A p \in Range(user.team) : ClubSize(user.team, Club(p)) <= ClubLimit

C5_NoFreeTransferRejected ==
  [][ ( /\ IsTransfer(resp')
        /\ user.exists /\ user.locked
        /\ user.freeTransfers = 0
        /\ user.currentGameweek = user.lastTransferGameweek
        /\ ~IsWildcardActive(user) )
      => (~resp'.ok /\ user'.team = user.team) ]_vars

\* C5 as amended: such a transfer is never refused for want of a free
\* transfer.  It is refused only by the membership, budget or club-cap
\* check, leaving the document as it was; otherwise it goes through, puts
\* the incoming player in the outgoing player's slot, takes 4 points off the
\* current points (not below 0) and leaves freeTransfers at 0.
C5_PenaltyTransfer ==
  [][ ( /\ IsTransfer(resp')
        /\ user.exists /\ user.locked
        /\ user.freeTransfers = 0
        /\ user.currentGameweek = user.lastTransferGameweek
        /\ ~IsWildcardActive(user) )
      => IF resp'.ok
           THEN /\ resp'.penaltyPoints = PenaltyPoints
                /\ user'.points = Max(0, user.points - PenaltyPoints)
                /\ user'.freeTransfers = 0
                /\ user'.team =
                     [user.team EXCEPT
                        ![IndexOf(user.team, resp'.oldPlayerId)] =
                           resp'.newPlayerId]
           ELSE /\ resp'.err \in
                     {"PlayerNotInRoster", "BudgetError", "ClubCapError"}
                /\ user' = user ]_vars

C5_Witness ==
  /\ IsTransfer(resp) /\ resp.ok
  /\ resp.penaltyPoints = PenaltyPoints
  /\ ~resp.isWildcardActive
  /\ user.freeTransfers = 0
  /\ user.points > 0
  /\ nTransfers >= 2

\* C6: while the wildcard is active, a successful transfer never lowers
\* freeTransfers.
C6_WildcardKeepsFreeTransfers ==
  [][ (IsTransfer(resp') /\ resp'.ok /\ IsWildcardActive(user))
      => user'.freeTransfers >= user.freeTransfers ]_vars

C6_Witness ==
  /\ IsTransfer(resp) /\ resp.ok /\ resp.isWildcardActive
  /\ IsWildcardActive(user)
  /\ user.freeTransfers = 1
  /\ nTransfers >= 2

RECURSIVE SumFirst(_, _)
SumFirst(stats, n) ==
  IF n = 0 THEN 0 ELSE stats[n].points + SumFirst(stats, n - 1)

\* the raw gameweek points the provider gave the request for player p
RawPoints(r, p) == IF p \in r.statFailed THEN 0 ELSE Pts(r.snapshot, p)

\* C7: update-points counts 3 times the raw points for the player whose id
\* is captainId when triple captain is active this gameweek, the raw points
\* for every other player, and the raw points for everyone when it is not
\* active; the stored points are the sum of these.
C7_TripleCaptainScoring ==
  (resp.op = "update-points" /\ resp.ok) =>
     /\ \A i \in 1..Len(resp.playerStats) :
          LET e == resp.playerStats[i] IN
          e.points =
            IF IsTripleCaptainActive(user) /\ e.player_id = user.captainId
              THEN TripleFactor * RawPoints(resp, e.player_id)
              ELSE RawPoints(resp, e.player_id)
     /\ user.points = SumFirst(resp.playerStats, Len(resp.playerStats))

C7_Witness ==
  /\ resp.op = "update-points" /\ resp.ok
  /\ IsTripleCaptainActive(user)
  /\ \E i \in 1..Len(resp.playerStats) :
       /\ resp.playerStats[i].player_id = user.captainId
       /\ RawPoints(resp, user.captainId) > 0
       /\ resp.playerStats[i].points = 3 * RawPoints(resp, user.captainId)
  /\ \E i \in 1..Len(resp.playerStats) :
       /\ resp.playerStats[i].player_id # user.captainId
       /\ resp.playerStats[i].points > 0

\* C8: the rollover runs once per gameweek.  A transfer request that runs
\* it leaves lastTransferGameweek equal to the current gameweek; a request
\* made when the two are already equal does not run it, leaves
\* lastTransferGameweek alone, does not raise freeTransfers (unless the
\* wildcard is active) and charges a spent free transfer as spent.
C8_RolloverOncePerGameweek ==
  [][ (IsTransfer(resp') /\ user.exists) =>
        /\ resp'.rolled =>
             user'.lastTransferGameweek = user'.currentGameweek
        /\ user.lastTransferGameweek = user.currentGameweek =>
             /\ ~resp'.rolled
             /\ user'.lastTransferGameweek = user.lastTransferGameweek
             /\ ~IsWildcardActive(user) =>
                  /\ user'.freeTransfers <= user.freeTransfers
                  /\ (resp'.ok /\ user.freeTransfers = 0) =>
                       resp'.penaltyPoints = PenaltyPoints ]_vars

C8_Witness ==
  /\ IsTransfer(resp) /\ resp.ok /\ ~resp.rolled
  /\ user.currentGameweek = 2
  /\ user.lastTransferGameweek = 2
  /\ resp.penaltyPoints = PenaltyPoints
  /\ user.freeTransfers = 0

\* the request got as far as the transfer-count rule
ReachedCountRule(r) == r.ok \/ r.err = "ClubCapError"

\* C9: a transfer request that finds currentGameweek different from
\* lastTransferGameweek and gets as far as the transfer-count rule has by
\* then reset freeTransfers to 1 and set lastTransferGameweek to the current
\* gameweek: it is charged no penalty, and freeTransfers ends at 0 when the
\* transfer goes through without a wildcard and at 1 otherwise.
C9_RolloverBeforeCountRule ==
  [][ ( /\ IsTransfer(resp')
        /\ user.exists
        /\ user.currentGameweek # user.lastTransferGameweek
        /\ ReachedCountRule(resp') )
      => /\ resp'.rolled
         /\ user'.lastTransferGameweek = user.currentGameweek
         /\ resp'.penaltyPoints = 0
         /\ user'.points = user.points
         /\ user'.freeTransfers =
              IF resp'.ok /\ ~resp'.isWildcardActive THEN 0 ELSE 1 ]_vars

C9_Witness ==
  /\ IsTransfer(resp) /\ resp.ok /\ resp.rolled
  /\ ~resp.isWildcardActive
  /\ resp.penaltyPoints = 0
  /\ user.freeTransfers = 0
  /\ user.lastTransferGameweek = 2
  /\ nTransfers >= 2

\* C10: a card's used flag, once true, is never false again.
C10_CardFlagsNeverReset ==
  [][ /\ user.wildcardUsed => user'.wildcardUsed
      /\ user.tripleCaptainUsed => user'.tripleCaptainUsed
      /\ user.wildBenchUsed => user'.wildBenchUsed ]_vars

\* C11: activate-wildcard does not succeed and leaves the user document as
\* it was when the wildcard is already used or the team is not locked;
\* otherwise it succeeds and changes exactly two fields: wildcardUsed becomes
\* true and wildcardGameweek becomes the user's current gameweek.
C11_ActivateWildcard ==
  [][ (resp'.op = "activate-wildcard" /\ user.exists) =>
        IF user.wildcardUsed \/ ~user.locked
          THEN ~resp'.ok /\ user' = user
          ELSE /\ resp'.ok
               /\ user' = [user EXCEPT
                             !.wildcardUsed = TRUE,
                             !.wildcardGameweek = user.currentGameweek] ]_vars

C11_Witness ==
  /\ resp.op = "activate-wildcard" /\ resp.ok
  /\ user.locked /\ user.wildcardUsed
  /\ user.wildcardGameweek = user.currentGameweek
  /\ user.tripleCaptainUsed
  /\ nTransfers >= 1

\* C12: activate-triple-captain does not succeed and leaves the user
\* document as it was when triple captain is already used, the team is not
\* locked or captainId is not in the roster; otherwise it succeeds, stores
\* captainId, sets tripleCaptainUsed and stores the current gameweek as
\* tripleCaptainGameweek, and changes nothing else.
C12_ActivateTripleCaptain ==
  [][ (resp'.op = "activate-triple-captain" /\ user.exists) =>
        IF \/ user.tripleCaptainUsed
           \/ ~user.locked
           \/ resp'.captainId \notin Range(user.team)
          THEN ~resp'.ok /\ user' = user
          ELSE /\ resp'.ok
               /\ user' = [user EXCEPT
                             !.captainId = resp'.captainId,
                             !.tripleCaptainUsed = TRUE,
                             !.tripleCaptainGameweek =
                                user.currentGameweek] ]_vars

C12_Witness ==
  /\ resp.op = "activate-triple-captain" /\ resp.ok
  /\ user.locked /\ user.tripleCaptainUsed
  /\ user.captainId = resp.captainId
  /\ user.captainId \in Range(user.team)
  /\ user.tripleCaptainGameweek = user.currentGameweek
  /\ nTransfers >= 1

\* the three refusals C13 lists
WildBenchRefused(u, r) ==
  \/ u.wildBenchUsed
  \/ ~u.locked
  \/ r.wildBenchPlayerId \in Range(u.team)

WildBenchRecorded(u, r) ==
  [u EXCEPT !.wildBenchPlayer = r.wildBenchPlayerId,
            !.wildBenchUsed = TRUE,
            !.wildBenchGameweek = u.currentGameweek]

\* C13 as stated: activate-wild-bench does not succeed and leaves the user
\* document as it was when wild bench is already used, the team is not
\* locked or the extra player is in the roster; in every other case it
\* succeeds and records the extra player and the current gameweek.
C13_WildBenchAsStated ==
  [][ (resp'.op = "activate-wild-bench" /\ user.exists) =>
        IF WildBenchRefused(user, resp')
          THEN ~resp'.ok /\ user' = user
          ELSE resp'.ok /\ user' = WildBenchRecorded(user, resp') ]_vars

\* C13 as amended: the three refusals as stated; in every other case the
\* request either is refused by the club check, leaving the document as it
\* was, or succeeds and records the extra player, the used flag and the
\* current gameweek, changing nothing else.
C13_ActivateWildBench ==
  [][ (resp'.op = "activate-wild-bench" /\ user.exists) =>
        IF WildBenchRefused(user, resp')
          THEN ~resp'.ok /\ user' = user
          ELSE IF resp'.ok
            THEN user' = WildBenchRecorded(user, resp')
            ELSE resp'.err = "ClubCapError" /\ user' = user ]_vars

C13_Witness ==
  /\ resp.op = "activate-wild-bench" /\ resp.ok
  /\ user.locked /\ user.wildBenchUsed
  /\ user.wildBenchPlayer = resp.wildBenchPlayerId
  /\ user.wildBenchPlayer \notin Range(user.team)
  /\ user.wildBenchGameweek = user.currentGameweek
  /\ nTransfers >= 1

\* every club has at most 2 of the listed players
WithinClubLimit(ids) ==
  \A i \in 1..Len(ids) : ClubSize(ids, Club(ids[i])) <= ClubLimit

\* C14: on a roster that keeps the club cap, activate-wild-bench is refused
\* whenever the extra player's club already has 2 players in the roster, and
\* after a successful activation no club has more than 2 of the 12 players.
C14_WildBenchClubCap ==
  [][ ( /\ resp'.op = "activate-wild-bench"
        /\ user.exists /\ user.locked
        /\ WithinClubLimit(user.team) )
      => /\ ClubSize(user.team, Club(resp'.wildBenchPlayerId)) >= ClubLimit
              => ~resp'.ok
         /\ resp'.ok =>
              WithinClubLimit(Append(user'.team, user'.wildBenchPlayer)) ]_vars

IsSaveTeam(r) == r.op = "save-team"

\* the catalog cost, in tenths, of the first n players of team
RECURSIVE CatalogCost(_, _)
CatalogCost(team, n) ==
  IF n = 0 THEN 0 ELSE CatalogCost(team, n - 1) + Cost(team[n])

\* C15: a roster that save-team accepts has exactly 11 ids, no two of them
\* the same player; a submission it rejects leaves the user document as it
\* was.
C15_SaveTeamSizeAndDuplicates ==
  [][ IsSaveTeam(resp') =>
        /\ resp'.ok =>
             /\ Len(user'.team) = TeamSize
             /\ Cardinality(Range(user'.team)) = TeamSize
        /\ ~resp'.ok => user' = user ]_vars

\* C16: a roster that save-team accepts has at most 2 players of any club.
C16_SaveTeamClubCap ==
  [][ (IsSaveTeam(resp') /\ resp'.ok) => WithinClubLimit(user'.team) ]_vars

\* C17: the catalog cost of a roster that save-team accepts does not exceed
\* the ceiling; a roster refused for its cost leaves the user document as it
\* was (not locked) and the response reports ceiling - total.
C17_SaveTeamCost ==
  [][ IsSaveTeam(resp') =>
        /\ resp'.ok =>
             CatalogCost(user'.team, Len(user'.team)) <= BudgetCeiling
        /\ resp'.err = "BudgetError" =>
             /\ user' = user
             /\ resp'.remaining = BudgetCeiling - resp'.totalCost.t ]_vars

\* C18: save-team refuses a roster for its cost only when the costs of its
\* players add up to more than the ceiling, so a roster of exactly the
\* ceiling is not refused; an accepted roster leaves budget = ceiling -
\* total cost to the tenth, and a budget of 0 when the total is the ceiling.
C18_SaveTeamExactCeiling ==
  [][ IsSaveTeam(resp') =>
        /\ resp'.err = "BudgetError" => resp'.totalCost.t > BudgetCeiling
        /\ resp'.ok =>
             /\ user'.budget.t = BudgetCeiling - resp'.totalCost.t
             /\ resp'.totalCost.t = BudgetCeiling =>
                  user'.budget = Exact(0) ]_vars

\* the request passed the checks that come before the budget check
ReachedBudgetCheck(u, r) ==
  /\ u.exists /\ u.locked
  /\ Len(u.team) = TeamSize
  /\ r.oldPlayerId \in Range(u.team)

Swapped(team, oldPlayerId, newPlayerId) ==
  [team EXCEPT ![IndexOf(team, oldPlayerId)] = newPlayerId]

\* C20 as stated: a successful transfer puts the incoming player in the
\* outgoing player's slot, leaves the other slots alone, sets the budget to
\* budget + outgoing cost - incoming cost, and lowers freeTransfers by
\* exactly 1 unless the wildcard is active.
C20_TransferAppliedAsStated ==
  [][ (IsTransfer(resp') /\ resp'.ok) =>
        /\ user'.team = Swapped(user.team, resp'.oldPlayerId, resp'.newPlayerId)
        /\ user'.budget =
             NewBudget(user.budget, resp'.oldPlayerCost, resp'.newPlayerCost)
        /\ ~resp'.isWildcardActive =>
             user'.freeTransfers = user.freeTransfers - 1 ]_vars

\* C20 as amended: roster and budget as stated; without an active wildcard
\* freeTransfers goes down by 1 when it is positive and stays 0, with the 4
\* point penalty charged, when it is 0; with the wildcard active it is set
\* to 1.
C20_TransferApplied ==
  [][ (IsTransfer(resp') /\ resp'.ok) =>
        /\ user'.team = Swapped(user.team, resp'.oldPlayerId, resp'.newPlayerId)
        /\ \A i \in 1..TeamSize :
             i # IndexOf(user.team, resp'.oldPlayerId) =>
               user'.team[i] = user.team[i]
        /\ user'.budget.t =
             user.budget.t + resp'.oldPlayerCost.t - resp'.newPlayerCost.t
        /\ user'.budget.e =
             user.budget.e + resp'.oldPlayerCost.e - resp'.newPlayerCost.e
        /\ user'.freeTransfers =
             IF resp'.isWildcardActive THEN 1
             ELSE IF user.freeTransfers > 0 THEN user.freeTransfers - 1
             ELSE 0
        /\ (~resp'.isWildcardActive /\ user.freeTransfers = 0) =>
             resp'.penaltyPoints = PenaltyPoints ]_vars

C20_Witness ==
  /\ IsTransfer(resp) /\ resp.ok
  /\ ~resp.isWildcardActive
  /\ resp.penaltyPoints = PenaltyPoints
  /\ user.freeTransfers = 0
  /\ user.team[TeamSize] = resp.newPlayerId
  /\ user.team[1] # 1
  /\ nTransfers >= 2

\* C21: a transfer request for a user who has no locked team, or whose
\* outgoing player is not in the roster, is refused and the user document
\* stays as it was.
C21_TransferPreconditions ==
  [][ ( /\ IsTransfer(resp')
        /\ \/ ~user.exists
           \/ ~user.locked
           \/ resp'.oldPlayerId \notin Range(user.team) )
      => /\ ~resp'.ok
         /\ resp'.err \in {"UserNotFound", "NotLocked", "TeamNotComplete",
                           "PlayerNotInRoster"}
         /\ user' = user ]_vars

C21_Witness ==
  /\ IsTransfer(resp) /\ ~resp.ok /\ resp.err = "PlayerNotInRoster"
  /\ user.locked /\ Len(user.team) = TeamSize
  /\ resp.oldPlayerId \notin Range(user.team)
  /\ nTransfers >= 1

\* the free transfers a successful transfer leaves, counted from the value
\* stored before the request
FreeTransfersAfter(u, r) ==
  LET had == IF r.rolled THEN 1 ELSE u.freeTransfers IN
  IF r.isWildcardActive THEN 1 ELSE IF had > 0 THEN had - 1 ELSE 0

\* roster, budget and free transfers of a successful transfer, all three
\* written by the one request
TransferStored(u, r, v) ==
  /\ v.team = Swapped(u.team, r.oldPlayerId, r.newPlayerId)
  /\ v.budget.t = u.budget.t + r.oldPlayerCost.t - r.newPlayerCost.t
  /\ v.freeTransfers = FreeTransfersAfter(u, r)
  /\ v.lastTransferGameweek = u.currentGameweek

\* C22 as stated: every transfer request ends either in an error that
\* leaves the stored roster, budget, free transfers and points as they were,
\* or in a success that stores roster, budget and free transfers together.
C22_TransferAllOrNothingAsStated ==
  [][ IsTransfer(resp') =>
        \/ /\ ~resp'.ok
           /\ user'.team = user.team
           /\ user'.budget = user.budget
           /\ user'.freeTransfers = user.freeTransfers
           /\ user'.points = user.points
        \/ /\ resp'.ok
           /\ TransferStored(user, resp', user') ]_vars

\* C22 as amended: an error leaves roster, budget and points as they were;
\* it leaves the free transfers as they were too, except that a club-limit
\* error on the first transfer request of a new gameweek has already stored
\* the rollover (freeTransfers 1, lastTransferGameweek the current
\* gameweek).  A success stores roster, budget and free transfers together.
C22_TransferAllOrNothing ==
  [][ IsTransfer(resp') =>
        \/ /\ ~resp'.ok
           /\ resp'.err # "ClubCapError" \/ ~resp'.rolled
           /\ user' = user
        \/ /\ ~resp'.ok
           /\ resp'.err = "ClubCapError" /\ resp'.rolled
           /\ user' = [user EXCEPT !.freeTransfers = 1,
                                   !.lastTransferGameweek =
                                       user.currentGameweek]
        \/ /\ resp'.ok
           /\ TransferStored(user, resp', user') ]_vars

\* a club-limit error that stored the rollover: the free transfer spent in
\* the last gameweek is back although the request failed
C22_Witness ==
  /\ IsTransfer(resp) /\ ~resp.ok /\ resp.err = "ClubCapError"
  /\ resp.rolled
  /\ nTransfers >= 1
  /\ user.freeTransfers = 1
  /\ user.lastTransferGameweek = user.currentGameweek
  /\ user.currentGameweek > 1

IsMakeTransfer(r) == r.op = "make-transfer"

\* C23: make-transfer refuses a swap whose incoming player has another
\* position than the outgoing player; roster, budget and transfersRemaining
\* stay as they were, and a request that got as far as the position rule is
\* refused by it.
C23_PositionMismatch ==
  [][ ( /\ IsMakeTransfer(resp')
        /\ resp'.oldPlayerId \in PlayerIds /\ resp'.newPlayerId \in PlayerIds
        /\ ElementType(resp'.oldPlayerId) # ElementType(resp'.newPlayerId) )
      => /\ ~resp'.ok
         /\ user'.team = user.team
         /\ user'.budget = user.budget
         /\ user'.transfersRemaining = user.transfersRemaining
         /\ (user.exists /\ user.locked /\ user.transfersRemaining > 0) =>
              resp'.err = "PositionMismatch" ]_vars

C23_Witness ==
  /\ IsMakeTransfer(resp) /\ ~resp.ok /\ resp.err = "PositionMismatch"
  /\ user.locked /\ user.transfersRemaining = 1
  /\ resp.oldPlayerId \in Range(user.team)
  /\ user.currentGameweek > 1
  /\ nTransfers >= 1

IsUpdatePoints(r) == r.op = "update-points"

\* the players update-points is to score: the roster, and the wild-bench
\* player while that card is active
PlayerSet(u) ==
  Range(u.team) \cup
    (IF u.wildBenchUsed /\ u.wildBenchGameweek = u.currentGameweek
       THEN {u.wildBenchPlayer} ELSE {})

RECURSIVE SumOver(_, _, _)
SumOver(S, u, r) ==
  IF S = {} THEN 0
  ELSE LET p == CHOOSE q \in S : TRUE IN
       PlayerPoints(u, r.snapshot, p, r.statFailed) + SumOver(S \ {p}, u, r)

\* C24: update-points scores the 11 roster players, and the wild-bench
\* player exactly when wild bench is active in the current gameweek, each
\* player once, and stores the sum as the points of the gameweek.
C24_UpdatePointsTotal ==
  (IsUpdatePoints(resp) /\ resp.ok) =>
    /\ Range(resp.playerStats) =
         {[player_id |-> p,
           points |-> PlayerPoints(user, resp.snapshot, p, resp.statFailed)] :
            p \in PlayerSet(user)}
    /\ Len(resp.playerStats) = Cardinality(PlayerSet(user))
    /\ user.points = SumOver(PlayerSet(user), user, resp)

\* the entries of the breakdown that are about player p
EntriesOf(stats, p) == {i \in 1..Len(stats) : stats[i].player_id = p}

\* C25: when the stats request fails for some player of the player set,
\* update-points still succeeds; the breakdown has exactly one entry for
\* each player of the set, 0 points for a player whose request failed and
\* the counted points for every other player, and the stored points are
\* the total of the breakdown.
C25_StatsFailureTolerated ==
  ( /\ IsUpdatePoints(resp)
    /\ user.exists /\ Len(user.team) = TeamSize
    /\ resp.statFailed \cap PlayerSet(user) # {} )
  => /\ resp.ok
     /\ \A p \in PlayerSet(user) :
          /\ Cardinality(EntriesOf(resp.playerStats, p)) = 1
          /\ \A i \in EntriesOf(resp.playerStats, p) :
               resp.playerStats[i].points =
                 IF p \in resp.statFailed THEN 0
                 ELSE IF IsTripleCaptainActive(user) /\ p = user.captainId
                   THEN TripleFactor * Pts(resp.snapshot, p)
                 ELSE Pts(resp.snapshot, p)
     /\ Len(resp.playerStats) = Cardinality(PlayerSet(user))
     /\ resp.points = SumFirst(resp.playerStats, Len(resp.playerStats))
     /\ user.points = resp.points

\* C26: update-points called again in the same gameweek, with the stats and
\* the roster as they were at the call before, leaves the points of the
\* gameweek and the season total at the values the call before stored;
\* what a call stores does not depend on the totals already stored.
C26_UpdatePointsRepeated ==
  [][ (IsUpdatePoints(resp') /\ resp'.ok) =>
        /\ user'.points = resp'.points
        /\ user'.totalPoints = resp'.points
        /\ ( /\ IsUpdatePoints(resp) /\ resp.ok
             /\ resp'.snapshot = resp.snapshot
             /\ resp'.statFailed = resp.statFailed )
           => /\ user'.points = user.points
              /\ user'.totalPoints = user.totalPoints
              /\ resp'.playerStats = resp.playerStats ]_vars

C26_Witness ==
  /\ IsUpdatePoints(resp) /\ resp.ok
  /\ resp.points > 0
  /\ user.points = resp.points /\ user.totalPoints = resp.points
  /\ resp.isWildBenchActive /\ resp.isTripleCaptainActive
  /\ nTransfers >= 1

\* C27: the season total is the sum of the totals of the gameweeks scored
\* so far: the first scoring after reset-transfers has started a new
\* gameweek adds that gameweek's total to the season total stored before,
\* and a further scoring in a gameweek replaces that gameweek's total only.
C27_SeasonTotal ==
  [][ (IsUpdatePoints(resp') /\ resp'.ok) =>
        /\ user'.points = resp'.points
        /\ (resp.op = "reset-transfers" /\ resp.ok) =>
              user'.totalPoints = user.totalPoints + resp'.points
        /\ (IsUpdatePoints(resp) /\ resp.ok) =>
              user'.totalPoints =
                (user.totalPoints - user.points) + resp'.points ]_vars

\* this step is the save-team request with body team (ids at the positions
\* strings sent as strings) during which the cost lookups of the players
\* in failed failed
SaveTeamStep(team, strings, failed) ==
  LET out == SaveTeam(user, team, strings, failed) IN
  /\ user' = out.user
  /\ resp' = out.res

\* C28: a save-team request during which the cost lookup of one of the
\* submitted players fails is refused: the team is not locked and no budget
\* is written.
C28_SaveTeamLookupFailure ==
  [][ \A team \in SubmittedRosters, strings \in StringSlots,
         failed \in SaveFailures :
        (SaveTeamStep(team, strings, failed) /\ failed \cap Range(team) # {})
          => /\ ~resp'.ok
             /\ user'.locked = user.locked
             /\ user'.budget = user.budget ]_vars

\* the slots of the roster that this step changed
ChangedSlots == {i \in DOMAIN user.team : user'.team[i] # user.team[i]}

\* C29: once the team is locked, locked stays true; every save-team request
\* after that is refused and leaves the user document as it was; the
\* roster keeps its 11 slots and changes only in a step that is a successful
\* transfer, which changes exactly one slot.
C29_LockedForGood ==
  [][ user.locked =>
        /\ user'.locked
        /\ (IsSaveTeam(resp') /\ slots' = slots) =>
              (~resp'.ok /\ user' = user)
        /\ DOMAIN user'.team = DOMAIN user.team
        /\ user'.team # user.team =>
              /\ IsTransfer(resp') /\ resp'.ok
              /\ Cardinality(ChangedSlots) = 1
              /\ \A i \in ChangedSlots :
                   user'.team[i] = resp'.newPlayerId ]_vars

\* a refused save-team on a locked team that a transfer has changed, after
\* a connect-wallet that passed its lock check before the team was locked
\* wrote its update
C29_Witness ==
  /\ IsSaveTeam(resp) /\ ~resp.ok /\ resp.err = "AlreadyLocked"
  /\ user.locked
  /\ user.team # [i \in 1..TeamSize |-> i]
  /\ "C" \in DOMAIN slots
  /\ slots["C"].pc = "done" /\ slots["C"].ok
  /\ user.budget = Exact(BudgetCeiling)

\* C30: with no wildcard active, a transfer that succeeds after another
\* transfer has already succeeded in the same gameweek costs the point
\* penalty: the points of the gameweek go down by 4, to 0 at the lowest.
C30_OneFreeTransfer ==
  [][ ( /\ IsTransfer(resp') /\ resp'.ok
        /\ ~resp'.isWildcardActive
        /\ nTransfers >= 1 )
      => user'.points = Max(0, user.points - PenaltyPoints) ]_vars

\* this step is a read request: no write request was counted
ReadStep(op) == resp'.op = op /\ nTransfers' = nTransfers

\* C31: leaderboard returns only users whose team is locked, at most 10 of
\* them and all of them when there are fewer, each once, in order of
\* non-increasing points, none of the users left out having more points
\* than a listed one, rank equal to the position; the collection stays as
\* it was.
C31_Leaderboard ==
  [][ ReadStep("leaderboard") =>
        LET lb == resp'.leaderboard
            listed == {lb[k].id : k \in DOMAIN lb}
            locked == {i \in UserIds : user[i].locked}
        IN
        /\ user' = user
        /\ listed \subseteq locked
        /\ Len(lb) <= LeaderboardLimit
        /\ Len(lb) = Cardinality(listed)
        /\ Len(lb) < LeaderboardLimit => listed = locked
        /\ \A k \in DOMAIN lb :
             /\ lb[k].rank = k
             /\ lb[k].points = user[lb[k].id].points
             /\ k > 1 => lb[k - 1].points >= lb[k].points
        /\ \A i \in locked \ listed, k \in DOMAIN lb :
             user[i].points <= lb[k].points ]_vars

\* a full board with ties, cut at 10 while more teams are locked, read
\* after a user's points were written
C31_Witness ==
  /\ resp.op = "leaderboard"
  /\ Len(resp.leaderboard) = LeaderboardLimit
  /\ Cardinality({i \in UserIds : user[i].locked}) > LeaderboardLimit
  /\ \E k \in 2..LeaderboardLimit :
       resp.leaderboard[k].points = resp.leaderboard[k - 1].points
  /\ resp.leaderboard[1].points > resp.leaderboard[LeaderboardLimit].points
  /\ nTransfers >= 1

\* C32: prize-pool reports as entries the number of users whose team is
\* locked and as fst 10 times that number; the collection stays as it was.
C32_PrizePool ==
  [][ ReadStep("prize-pool") =>
        /\ user' = user
        /\ resp'.pool.entries =
             Cardinality({i \in UserIds : user[i].locked})
        /\ resp'.pool.fst = 10 * resp'.pool.entries ]_vars

\* a pool read while some users have joined without a locked team, after a
\* team was locked
C32_Witness ==
  /\ resp.op = "prize-pool"
  /\ resp.pool.entries >= 2
  /\ resp.pool.entries < Cardinality({i \in UserIds : user[i].joined})
  /\ nTransfers >= 1

\* this step is a save-team that went through with every cost looked up
SaveTeamFound ==
  /\ IsSaveTeam(resp') /\ resp'.ok
  /\ resp'.totalCost = SumCost(user'.team, TeamSize, {})

\* this step is a transfer that went through with both costs looked up
TransferFound ==
  /\ IsTransfer(resp') /\ resp'.ok
  /\ resp'.oldPlayerCost = NowCost[resp'.oldPlayerId]
  /\ resp'.newPlayerCost = NowCost[resp'.newPlayerId]

\* budget + total cost of the roster === ceiling, the total added up in
\* roster order as save-team adds it
BudgetIdentity(u) ==
  DAdd(u.budget, SumCost(u.team, TeamSize, {})) = Exact(BudgetCeiling)

\* C33: with constant costs and no failed lookup, budget + total cost of
\* the roster = ceiling holds after save-team and after every transfer made
\* from a state where it held.
C33_BudgetIdentity ==
  [][ /\ SaveTeamFound => BudgetIdentity(user')
      /\ (TransferFound /\ BudgetIdentity(user)) => BudgetIdentity(user') ]_vars

\* C34: in every reachable state the user's freeTransfers is 0 or 1.
C34_FreeTransfersRange == user.freeTransfers \in {0, 1}

\* the free transfer is spent and then a transfer is made with none left
C34_Witness ==
  /\ IsTransfer(resp) /\ resp.ok
  /\ nTransfers = 2
  /\ resp.penaltyPoints > 0
  /\ user.freeTransfers = 0

\* the gameweek fields are 1 before and after the step, and the step did
\* not run the rollover reset
GameweekFixed ==
  /\ user.currentGameweek = 1 /\ user.lastTransferGameweek = 1
  /\ user'.currentGameweek = 1 /\ user'.lastTransferGameweek = 1
  /\ ~resp'.rolled

\* every card that is active before the step is active after it
CardsStayActive ==
  /\ IsWildcardActive(user) => IsWildcardActive(user')
  /\ IsTripleCaptainActive(user) => IsTripleCaptainActive(user')
  /\ IsWildBenchActive(user) => IsWildBenchActive(user')

\* C35 as stated: currentGameweek = lastTransferGameweek = 1 in every
\* state, the rollover reset never runs, a spent free transfer is never
\* restored and an activated card stays active.
C35_GameweekFixedAsStated ==
  [][ /\ GameweekFixed
      /\ user.freeTransfers = 0 => user'.freeTransfers = 0
      /\ CardsStayActive ]_vars

\* C35: currentGameweek = lastTransferGameweek = 1 in every state and the
\* rollover reset never runs: no transfer-player request deactivates a
\* card, and none restores a spent free transfer unless the wildcard is
\* active, in which case it sets freeTransfers to 1.
C35_GameweekFixed ==
  [][ /\ GameweekFixed
      /\ IsTransfer(resp') =>
           /\ (user.freeTransfers = 0 /\ user'.freeTransfers # 0) =>
                /\ resp'.ok /\ resp'.isWildcardActive
                /\ user'.freeTransfers = 1
           /\ CardsStayActive ]_vars

\* the free transfer was spent, the wildcard activated, and a transfer made
\* under it has put freeTransfers back to 1
C35_Witness ==
  /\ IsTransfer(resp) /\ resp.ok /\ resp.isWildcardActive
  /\ ~resp.rolled
  /\ nTransfers = 2
  /\ user.freeTransfers = 1
  /\ user.currentGameweek = 1 /\ user.lastTransferGameweek = 1

\* C36: while the wild bench is active, the recorded wild-bench player is
\* not a member of the roster.
C36_WildBenchOutsideRoster ==
  IsWildBenchActive(user) => user.wildBenchPlayer \notin Range(user.team)

\* C37: while the triple captain is active, captainId is a member of the
\* roster.
C37_CaptainInRoster ==
  IsTripleCaptainActive(user) => user.captainId \in Range(user.team)

\* the fields connect-wallet initialises besides the name and the wallet
JoinFields(u) ==
  <<u.budget, u.freeTransfers, u.currentGameweek, u.lastTransferGameweek,
    u.wildcardUsed, u.wildcardGameweek,
    u.tripleCaptainUsed, u.tripleCaptainGameweek, u.captainId,
    u.wildBenchUsed, u.wildBenchGameweek, u.wildBenchPlayer>>

\* C38: a connect-wallet request leaves the budget, the free-transfer
\* count, the gameweek fields and the card fields of a locked user as they
\* are, also when other requests run between its lock check and its update.
C38_ConnectWalletLockedUser ==
  [][ (resp'.op = "connect-wallet" /\ user.locked) =>
        JoinFields(user') = JoinFields(user) ]_vars

\* C39: a transfer that goes through with no free transfer left and no
\* active wildcard lowers the stored points by 4, not below 0, and leaves
\* freeTransfers at 0; one that goes through with a free transfer or under
\* an active wildcard leaves the points as they are.
C39_PenaltyPoints ==
  [][ (IsTransfer(resp') /\ resp'.ok) =>
        IF user.freeTransfers < 1 /\ ~IsWildcardActive(user)
          THEN /\ user'.points = Max(0, user.points - 4)
               /\ user'.freeTransfers = 0
          ELSE user'.points = user.points ]_vars

\* a penalty transfer that took 4 points off a positive total
C39_Witness ==
  /\ IsTransfer(resp) /\ resp.ok
  /\ resp.penaltyPoints = PenaltyPoints
  /\ ~IsWildcardActive(user)
  /\ user.points > 0
  /\ user.totalPoints = user.points + 4
  /\ user.freeTransfers = 0

\* C40: the entry count that prize-pool reports is the number of distinct
\* users who have joined, however often each of them submitted a team.
C40_EntriesCountUsers ==
  [][ ReadStep("prize-pool") =>
        resp'.pool.entries =
          Cardinality({i \in EntrantIds : user[i].joined}) ]_vars

=============================================================================
